---- MODULE Spec2Model ----
(***************************************************************************)
(* Model of CityworksConnection/connect_to_cityworks.py: the one-way sync  *)
(* of flagged ArcGIS reports (with attachments and related comments) into  *)
(* Cityworks.  One action per external call of main(), together with the   *)
(* local code that follows the call.  ArcGIS and Cityworks are the         *)
(* environment: every response they can give is drawn with \E.             *)
(*                                                                         *)
(* Values: Python strings are TLA+ strings; Python None / SQL NULL is the  *)
(* string NULL; a missing dictionary key is the string MISSING; request    *)
(* identifiers are the decimal strings ToString(n).                        *)
(***************************************************************************)
EXTENDS Integers, Sequences, FiniteSets, TLC

\* ---------------------------------------------------------------- bounds
MaxRuns == 2
\* replies other than plain success that ArcGIS and Cityworks give, over all runs
MaxFaults == 2

\* ------------------------------------------------- values and conversions
NULL == "<None>"
MISSING == "<no key>"

\* event["flag"]["on"], event["flag"]["off"]
FlagOn == "Y"
FlagOff == "N"
flag_values == <<FlagOn, FlagOff>>

\* a lookup key that keeps the case of the value
UpperAsIs(s) == s

\* str.upper() on the strings of the model
Upper(s) ==
  CASE s \in {"pothole", "Pothole"} -> "POTHOLE"
    [] s = "Graffiti" -> "GRAFFITI"
    [] s = "sinkhole" -> "SINKHOLE"
    [] OTHER -> s

\* str.strip() on the strings of the model
Strip(s) == IF s \in {"  ", " "} THEN "" ELSE s

\* values of the problem-type attribute that have no .upper()/.strip()
IsStr(v) == v \notin {NULL, MISSING}

\* int(): defined on the numeric strings only
IsNumeric(s) == s \in {"42", "7"}
IntOf(s) == CASE s = "42" -> 42 [] s = "7" -> 7

\* the problem-type attribute values a stored report may carry: a code of the
\* vocabulary in either case, a blank, an unknown code, null, or no such key
PTypeValues == {"POTHOLE", "pothole", "  ", "sinkhole", NULL, MISSING}

\* ------------------------------------------------------- the configuration
\* event["arcgis"]["layers"]: two layers, in configuration order
layers == <<"L1", "L2">>
\* reports of each layer (object ids) and comments of each related table
LayerRecs == <<{1, 2}, {3}>>
TableRecs == <<{11}, {}>>
SourceRecs == {1, 2, 3}
RelRecs == {11}
\* the parent report a comment's foreign key points at
ParentOf == (11 :> 1)
\* attachments of each report / comment, as returned by get_list
AttsOf == (1 :> <<"a1", "a2">>) @@ (2 :> <<>>) @@ (3 :> <<>>)
          @@ (11 :> <<"c1">>)
AllAtts == {"a1", "a2", "c1"}

\* the stored attributes the runs may start from: the first report of L1
\* carries any problem type, the second one a good, a null or no problem type;
\* both are flagged or already processed; the comment is new or already flagged
PTypeDomain == (1 :> PTypeValues) @@ (2 :> {"POTHOLE", NULL, MISSING})
               @@ (3 :> {"pothole"})
FlagDomain == (1 :> {FlagOn, FlagOff}) @@ (2 :> {FlagOn, FlagOff}) @@ (3 :> {FlagOn})
RelFlagDomain == (11 :> {NULL, FlagOff})

\* the replies ServiceRequest/Problems can give
GoodProblems == << [ProblemCode |-> "Pothole", ProblemSid |-> "42"],
                   [ProblemCode |-> "Graffiti", ProblemSid |-> "7"] >>
BadProblems == << [ProblemCode |-> "Pothole", ProblemSid |-> "42"],
                  [ProblemCode |-> "Graffiti", ProblemSid |-> "n/a"] >>
ProblemReplies == {"good", "malformed", "request error"}

\* event["fields"]["layers"], ["ids"], ["type"]; event["flag"]["field"]
layerfields == << <<"Comments", "desc">> >>
ids == <<"RequestId", "REQUESTID">>
probtypes == <<"ProblemSid", "probtype">>
fc_flag == "flag"

\* the free-text attribute and the geometry of each stored report
DescOf == (1 :> "deep hole") @@ (2 :> NULL) @@ (3 :> "leaning sign")
GeomOf == (1 :> [x |-> 10, y |-> 20]) @@ (2 :> [x |-> 11, y |-> 21])
          @@ (3 :> [x |-> 12, y |-> 22])

\* str() of an attribute value
Str(v) == IF v = NULL THEN "None" ELSE v

\* ------------------------------------------------------------------ state
VARIABLES
  run,          \* number of the current invocation of main()
  pc,           \* position of main()
  logOpen,      \* the log file object is open
  result,       \* how the invocation went: running, Done, Aborted, Crashed
  cw_token,     \* global cw_token ("" until authenticate succeeds)
  sr,           \* main's sr
  prob_types,   \* main's prob_types: a dict, or the string get_problem_types returned
  relMatch,     \* per layer: its related table URL is in event["arcgis"]["tables"]
  ptype,        \* stored problem-type attribute of each report
  srcFlag,      \* stored flag attribute of each report
  srcExt,       \* stored external-id attribute (ids[1]) of each report
  relFlag,      \* stored flag attribute of each comment
  li,           \* index of the layer of the for loop
  reltable,     \* main's reltable ("" when no relationship matched)
  rows,         \* features of the query still to be iterated
  rel_records,  \* related records of the query still to be iterated
  oid,          \* object id of the feature being processed
  requestid,    \* main's requestid
  atts,         \* attachments of the feature still to be copied
  parentExt,    \* parent.attributes[ids[1]] of the comment being processed
  updated_rows, \* main's updated_rows
  faults,       \* number of failing replies the two services have given so far
  cwNextId,     \* Cityworks: number of the next service request
  payload,      \* Cityworks: data of the last ServiceRequest/Create call
  subRes,       \* history, per report and run: outcome of submit_to_cw
  createCalls,  \* history, per report: ServiceRequest/Create calls made, over all runs
  createCount,  \* history, per report: those of them that returned an id
  attTried,     \* history, per run: owners for which copy_attachment was called
  attFail,      \* history, per run: owners with a failed attachment copy
  uploads,      \* history, per attachment: uploads Cityworks accepted
  editRes,      \* history, per run and record: what edit_features did with its update
  cmtRes,       \* history, per comment and run: outcome of copy_comments
  relCallExt,   \* history, per comment and run: request id its Cityworks calls used
  queried,      \* history, per run: layers (and tables) that were queried
  setup         \* history, per run: replies of the three setup calls

config == <<relMatch, ptype>>
store == <<srcFlag, srcExt, relFlag>>
session == <<cw_token, sr, prob_types>>
locals == <<li, reltable, rows, rel_records, oid, requestid, atts, parentExt, updated_rows>>
cityworks == <<cwNextId, payload>>
history == <<subRes, createCalls, createCount, attTried, attFail, uploads, editRes, cmtRes,
             relCallExt, queried>>
vars == <<run, pc, logOpen, result, config, store, session, locals, cityworks,
          faults, setup, history>>

NoSetup == [auth |-> "none", wkid |-> "none", problems |-> "none"]
NoDict == [isDict |-> FALSE, dict |-> {}, str |-> ""]

Init ==
  /\ run = 1
  /\ pc = "config"
  /\ logOpen = FALSE
  /\ result = "running"
  /\ cw_token = ""
  /\ sr = NULL
  /\ prob_types = NoDict
  /\ relMatch \in [1..Len(layers) -> BOOLEAN]
  /\ ptype \in [SourceRecs -> PTypeValues]
  /\ \A r \in SourceRecs : ptype[r] \in PTypeDomain[r]
  /\ srcFlag \in [SourceRecs -> {FlagOn, FlagOff}]
  /\ \A r \in SourceRecs : srcFlag[r] \in FlagDomain[r]
  /\ srcExt = [r \in SourceRecs |-> IF srcFlag[r] = FlagOff THEN "900" ELSE NULL]
  /\ relFlag \in [RelRecs -> {NULL, FlagOff}]
  /\ \A c \in RelRecs : relFlag[c] \in RelFlagDomain[c]
  /\ li = 1
  /\ reltable = ""
  /\ rows = <<>>
  /\ rel_records = <<>>
  /\ oid = 0
  /\ requestid = NULL
  /\ atts = <<>>
  /\ parentExt = NULL
  /\ updated_rows = <<>>
  /\ cwNextId = 1001
  /\ faults = 0
  /\ payload = {}
  /\ subRes = [r \in SourceRecs |-> "none"]
  /\ createCalls = [r \in SourceRecs |-> 0]
  /\ createCount = [r \in SourceRecs |-> 0]
  /\ attTried = {}
  /\ attFail = {}
  /\ uploads = [a \in AllAtts |-> 0]
  /\ editRes = [x \in SourceRecs \cup RelRecs |-> "none"]
  /\ cmtRes = [c \in RelRecs |-> "none"]
  /\ relCallExt = [c \in RelRecs |-> "none"]
  /\ queried = {}
  /\ setup = NoSetup

\* ------------------------------------------------------------ Python dicts
\* a dict is a set of <<key, value>> pairs with distinct keys
HasKey(d, k) == \E e \in d : e[1] = k
Get(d, k) == (CHOOSE e \in d : e[1] = k)[2]
Put(d, k, v) == {e \in d : e[1] # k} \cup {<<k, v>>}

\* the strings the program tests with the "in" operator
AuthError == "error: 1: Invalid login"
WarnNoType == "WARNING: No problem type provided. Record not exported."
WarnNotFound == "WARNING: Problem type not found in Cityworks. Record not exported."
WarnMissing == "WARNING: Record not exported due to missing value in field"
\* sub in s, for the needles "error" and "WARNING"
Contains(sub, s) ==
  CASE sub = "error" ->
         s \in {"error", AuthError, "error: invalid literal for int()",
                "error: request failed"}
    [] sub = "WARNING" -> s \in {WarnNoType, WarnNotFound, WarnMissing}
    [] OTHER -> FALSE

\* the environment gives a failing reply only while the budget lasts
Reply(failing) ==
  /\ failing => faults < MaxFaults
  /\ faults' = IF failing THEN faults + 1 ELSE faults

\* ------------------------------------------------------------------- setup
\* main, lines 185-202: the configuration lookups, outside the try block
ReadConfig ==
  /\ pc = "config"
  /\ \E ok \in BOOLEAN :
       /\ Reply(~ok)
       /\ pc' = IF ok THEN "openlog" ELSE "crashed"
       /\ result' = IF ok THEN result ELSE "Crashed"
  /\ UNCHANGED <<run, logOpen, config, store, session, locals, cityworks,
                 setup, history>>

\* main, lines 204-208: the log is opened, outside the try block
OpenLog ==
  /\ pc = "openlog"
  /\ \E ok \in BOOLEAN :
       /\ Reply(~ok)
       /\ logOpen' = ok
       /\ pc' = IF ok THEN "connect" ELSE "crashed"
       /\ result' = IF ok THEN result ELSE "Crashed"
  /\ UNCHANGED <<run, config, store, session, locals, cityworks, setup,
                 history>>

\* main, line 212: GIS(orgUrl, username, password)
ConnectGIS ==
  /\ pc = "connect"
  /\ \E ok \in BOOLEAN :
       /\ Reply(~ok)
       /\ pc' = IF ok THEN "auth" ELSE "except"
  /\ UNCHANGED <<run, logOpen, result, config, store, session, locals, cityworks,
                 setup, history>>

\* get_cw_token wording the failure without the marker main looks for
get_cw_token_lenient(status) ==
  IF status # 0 THEN "failed: 1: Invalid login" ELSE "success"

\* get_cw_token: the status string it returns for a response Status
get_cw_token(status) == IF status # 0 THEN AuthError ELSE "success"

\* main, lines 215-222
GetCwToken ==
  /\ pc = "auth"
  /\ \E reply \in {"0", "1", "raise"} :
       /\ Reply(reply # "0")
       /\ setup' = [setup EXCEPT !.auth = reply]
       /\ IF reply = "raise"
          THEN /\ pc' = "except"
               /\ UNCHANGED cw_token
          ELSE LET status == get_cw_token(IF reply = "0" THEN 0 ELSE 1)
               IN /\ cw_token' = IF status = "success" THEN "token" ELSE cw_token
                  /\ pc' = IF Contains("error", status) THEN "except" ELSE "wkid"
  /\ UNCHANGED <<run, logOpen, result, config, store, sr, prob_types, locals,
                 cityworks, history>>

\* get_wkid reporting the failure the way get_problem_types does
get_wkid_verbose(hasSpatialReference) ==
  IF hasSpatialReference THEN "2263" ELSE "error: 'SpatialReference'"

\* get_wkid: the value it returns for a response with or without
\* Value.SpatialReference
get_wkid(hasSpatialReference) == IF hasSpatialReference THEN "2263" ELSE "error"

\* main, lines 225-232
GetWkid ==
  /\ pc = "wkid"
  /\ \E reply \in {"wkid", "absent", "raise"} :
       /\ Reply(reply # "wkid")
       /\ setup' = [setup EXCEPT !.wkid = reply]
       /\ IF reply = "raise"
          THEN /\ pc' = "except"
               /\ UNCHANGED sr
          ELSE /\ sr' = get_wkid(reply = "wkid")
               /\ pc' = IF sr' = "error" THEN "except" ELSE "probs"
  /\ UNCHANGED <<run, logOpen, result, config, store, cw_token, prob_types, locals,
                 cityworks, history>>

\* get_problem_types, lines 90-92: the loop over response["Value"]; the result
\* is the dict, or the error string once int() raises
RECURSIVE BuildValues(_, _)
BuildValues(entries, values) ==
  IF entries = <<>> THEN [isDict |-> TRUE, dict |-> values, str |-> ""]
  ELSE LET val == Head(entries)
       IN IF IsNumeric(val.ProblemSid)
          THEN BuildValues(Tail(entries),
                           Put(values, Upper(val.ProblemCode), IntOf(val.ProblemSid)))
          ELSE [isDict |-> FALSE, dict |-> {},
                str |-> "error: invalid literal for int()"]

get_problem_types(reply) ==
  CASE reply = "good" -> BuildValues(GoodProblems, {})
    [] reply = "malformed" -> BuildValues(BadProblems, {})
    [] OTHER -> [isDict |-> FALSE, dict |-> {}, str |-> "error: request failed"]

\* main, line 237: prob_types == "error"
ProbTypesIsError(pt) == ~pt.isDict /\ pt.str = "error"

\* main, lines 235-242
GetProblemTypes ==
  /\ pc = "probs"
  /\ \E reply \in ProblemReplies :
       /\ Reply(reply # "good")
       /\ setup' = [setup EXCEPT !.problems = reply]
       /\ prob_types' = get_problem_types(reply)
       /\ pc' = IF ProbTypesIsError(prob_types') THEN "except" ELSE "layer"
  /\ li' = 1
  /\ UNCHANGED <<run, logOpen, result, config, store, cw_token, sr, reltable, rows,
                 rel_records, oid, requestid, atts, parentExt, updated_rows,
                 cityworks, history>>

\* ------------------------------------------------------------ source layer
\* the features of a query come back in object-id order
RECURSIVE InOrder(_)
InOrder(S) ==
  IF S = {} THEN <<>>
  ELSE LET m == CHOOSE x \in S : \A y \in S : x <= y
       IN <<m>> \o InOrder(S \ {m})

\* QueryReports without its where clause
QueryAllReports(l, flags) == InOrder(LayerRecs[l])

\* lyr.query(where="<fc_flag>='<on>'"): the stored reports of a layer whose
\* flag equals the 'on' value
QueryReports(l, flags) == InOrder({r \in LayerRecs[l] : flags[r] = flag_values[1]})

\* main, lines 244-262: the next layer is opened, its related table looked up
\* and its flagged reports queried
BeginLayer ==
  /\ pc = "layer"
  /\ li <= Len(layers)
  /\ \E ok \in BOOLEAN :
       /\ Reply(~ok)
       /\ IF ok
          THEN /\ reltable' = IF relMatch[li] THEN "table" ELSE ""
               /\ rows' = QueryReports(li, srcFlag)
               /\ updated_rows' = <<>>
               /\ queried' = queried \cup {<<"layer", li>>}
               /\ pc' = "row"
          ELSE /\ pc' = "except"
               /\ UNCHANGED <<reltable, rows, updated_rows, queried>>
  /\ UNCHANGED <<run, logOpen, result, config, store, session, li, rel_records,
                 oid, requestid, atts, parentExt, cityworks, setup, subRes,
                 createCalls, createCount, attTried, attFail, uploads, editRes, cmtRes,
                 relCallExt>>

\* main, line 244 once the layers are exhausted: the try block ends normally
EndLayers ==
  /\ pc = "layer"
  /\ li > Len(layers)
  /\ pc' = "close"
  /\ result' = "Done"
  /\ UNCHANGED <<faults, run, logOpen, config, store, session, locals, cityworks, setup,
                 history>>

\* submit_to_cw, lines 105-115: the problem-type lookup.  "ok", a warning
\* string, or "raise" for an exception that leaves submit_to_cw
ProblemLookup(v, pt) ==
  IF v = MISSING THEN "raise"          \* KeyError, raised again by line 109
  ELSE IF ~IsStr(v) THEN WarnMissing   \* AttributeError: no .upper()
  ELSE IF ~pt.isDict THEN "raise"      \* TypeError: a str indexed by a str
  ELSE IF HasKey(pt.dict, Upper(v)) THEN "ok"
  ELSE IF Strip(v) = "" THEN WarnNoType
  ELSE WarnNotFound

\* submit_to_cw, lines 118-124: the values submitted for report r
RECURSIVE MapFields(_, _, _)
MapFields(fields, r, values) ==
  IF fields = <<>> THEN values
  ELSE LET fieldset == Head(fields)
       IN MapFields(Tail(fields), r,
                    Put(values, fieldset[1],
                        Str(IF fieldset[2] = "desc" THEN DescOf[r] ELSE NULL)))

SubmitValues(r, pt, v) ==
  Put(Put(Put(MapFields(layerfields, r, {}), "X", GeomOf[r].x), "Y", GeomOf[r].y),
      probtypes[1], Get(pt.dict, Upper(v)))

\* the replies ServiceRequest/Create can give: a response with
\* Value.RequestId, a response without it, or a failed request
CreateReplies == {"id", "no id", "raise"}

\* submit_to_cw: the value it returns for report r ("raise" for an exception
\* that leaves it); id is the request id Cityworks assigns
submit_to_cw(r, pt, reply, id) ==
  LET look == ProblemLookup(ptype[r], pt)
  IN IF look # "ok" THEN look
     ELSE IF reply = "raise" THEN "raise"
     ELSE IF reply = "id" THEN ToString(id)
     ELSE "error"

\* IsSkipped testing for the wrong marker
IsSkippedOnError(rid) == Contains("error", rid)

\* main, lines 270-280: the record is skipped
IsSkipped(rid) == Contains("WARNING", rid)

\* main, lines 264-284: the next feature is submitted
SubmitRow ==
  /\ pc = "row"
  /\ rows # <<>>
  /\ \E reply \in CreateReplies :
       LET r == Head(rows)
           called == ProblemLookup(ptype[r], prob_types) = "ok"
           rid == submit_to_cw(r, prob_types, reply, cwNextId)
       IN /\ called \/ reply = "id"
          /\ Reply(reply # "id")
          /\ oid' = r
          /\ subRes' = [subRes EXCEPT ![r] = rid]
          /\ payload' = IF called THEN SubmitValues(r, prob_types, ptype[r])
                        ELSE payload
          /\ cwNextId' = IF called /\ reply = "id" THEN cwNextId + 1 ELSE cwNextId
          /\ createCalls' = IF called THEN [createCalls EXCEPT ![r] = @ + 1]
                            ELSE createCalls
          /\ createCount' = IF called /\ reply = "id"
                            THEN [createCount EXCEPT ![r] = @ + 1]
                            ELSE createCount
          /\ IF rid = "raise"
             THEN /\ pc' = "except"
                  /\ UNCHANGED <<requestid, rows, atts>>
             ELSE /\ requestid' = rid
                  /\ IF IsSkipped(rid)
                     THEN /\ rows' = Tail(rows)
                          /\ pc' = "row"
                          /\ UNCHANGED atts
                     ELSE /\ atts' = AttsOf[r]
                          /\ pc' = "attach"
                          /\ UNCHANGED rows
  /\ UNCHANGED <<run, logOpen, result, config, store, session, li, reltable,
                 rel_records, parentExt, updated_rows, setup, attTried, attFail,
                 uploads, editRes, cmtRes, relCallExt, queried>>

\* the replies of one copy_attachment call: Status 0, a non-zero Status, or a
\* download / upload that raises
CopyReplies == {"0", "1", "raise"}

\* main, lines 286-292: one attachment of the report is copied
CopyAttachment ==
  /\ pc = "attach"
  /\ atts # <<>>
  /\ \E reply \in CopyReplies :
       /\ Reply(reply # "0")
       /\ attTried' = attTried \cup {oid}
       /\ attFail' = IF reply = "0" THEN attFail ELSE attFail \cup {oid}
       /\ uploads' = IF reply = "0" THEN [uploads EXCEPT ![Head(atts)] = @ + 1]
                     ELSE uploads
       /\ atts' = Tail(atts)
       /\ pc' = IF reply = "raise" THEN "except" ELSE "attach"
  /\ UNCHANGED <<run, logOpen, result, config, store, session, li, reltable, rows,
                 rel_records, oid, requestid, parentExt, updated_rows, cityworks,
                 setup, subRes, createCalls, createCount, editRes, cmtRes, relCallExt, queried>>

\* UpdatedRow recording the object id instead of the request id
UpdatedRowWithOid(o, rid) == [oid |-> o, flag |-> flag_values[2], ext |-> ToString(o)]

\* main, lines 295-301: row_orig with its flag set to the 'off' value and its
\* external-id attribute set to requestid
UpdatedRow(o, rid) == [oid |-> o, flag |-> flag_values[2], ext |-> rid]

\* main, lines 294-303: the stored feature is fetched again, its flag and
\* external id are set, and it is queued for the write-back
QueueRow ==
  /\ pc = "attach"
  /\ atts = <<>>
  /\ updated_rows' = Append(updated_rows, UpdatedRow(oid, requestid))
  /\ rows' = Tail(rows)
  /\ pc' = "row"
  /\ UNCHANGED <<faults, run, logOpen, result, config, store, session, li, reltable,
                 rel_records, oid, requestid, atts, parentExt, cityworks, setup,
                 history>>

\* the object ids of a batch of updates
Oids(batch) == {batch[i].oid : i \in 1..Len(batch)}

\* lyr.edit_features(updates=...): the stored attribute after the service
\* applied the updates of the features in ok
Edited(stored, batch, ok, field) ==
  [x \in DOMAIN stored |->
     IF x \in ok
     THEN (CHOOSE u \in {batch[i] : i \in 1..Len(batch)} : u.oid = x)[field]
     ELSE stored[x]]

\* main, lines 305-311: the queued reports are written back in one batch.  The
\* service applies the updates of the features in ok and rejects the others,
\* or the call raises
ApplyEdits ==
  /\ pc = "row"
  /\ rows = <<>>
  /\ IF updated_rows = <<>>
     THEN /\ pc' = "rel"
          /\ UNCHANGED <<srcFlag, srcExt, editRes, faults>>
     ELSE \/ \E ok \in SUBSET Oids(updated_rows) :
               /\ Reply(ok # Oids(updated_rows))
               /\ srcFlag' = Edited(srcFlag, updated_rows, ok, "flag")
               /\ srcExt' = Edited(srcExt, updated_rows, ok, "ext")
               /\ editRes' = [x \in DOMAIN editRes |->
                                IF x \in ok THEN "applied"
                                ELSE IF x \in Oids(updated_rows) THEN "rejected"
                                ELSE editRes[x]]
               /\ pc' = "rel"
          \/ /\ Reply(TRUE)
             /\ editRes' = [x \in DOMAIN editRes |->
                              IF x \in Oids(updated_rows) THEN "raise"
                              ELSE editRes[x]]
             /\ pc' = "except"
             /\ UNCHANGED <<srcFlag, srcExt>>
  /\ UNCHANGED <<run, logOpen, result, config, relFlag, session, locals,
                 cityworks, setup, subRes, createCalls, createCount, attTried, attFail,
                 uploads, cmtRes, relCallExt, queried>>

\* ----------------------------------------------------------- related table
\* rellyr.query(where="<fc_flag> IS NULL"): the stored comments of the related
\* table of layer l whose flag is null
QueryComments(l, flags) == InOrder({c \in TableRecs[l] : flags[c] = NULL})

\* main, lines 314-320: the related table is opened and queried.  With
\* reltable = "" there is no service to read the properties of: the call raises
BeginRelated ==
  /\ pc = "rel"
  /\ \E ok \in BOOLEAN :
       /\ reltable = "" => ok
       /\ Reply(~ok)
       /\ IF ok /\ reltable # ""
          THEN /\ rel_records' = QueryComments(li, relFlag)
               /\ updated_rows' = <<>>
               /\ queried' = queried \cup {<<"table", li>>}
               /\ pc' = "relrow"
          ELSE /\ pc' = "except"
               /\ UNCHANGED <<rel_records, updated_rows, queried>>
  /\ UNCHANGED <<run, logOpen, result, config, store, session, li, reltable, rows,
                 oid, requestid, atts, parentExt, cityworks, setup, subRes,
                 createCalls, createCount, attTried, attFail, uploads, editRes, cmtRes,
                 relCallExt>>

\* get_parent: the stored report the comment's key points at
get_parent(c) == ParentOf[c]

\* the external id of a parent taken from the features queried before the
\* write-back, where a flagged report has none yet
ParentExtIdStale(c, ext) == IF ext[get_parent(c)] = "900" THEN "900" ELSE NULL

\* main, lines 323 and 329: parent.attributes[ids[1]] of the parent as the
\* service stores it when get_parent queries it
ParentExtId(c, ext) == ext[get_parent(c)]

\* main, lines 321-327: the next comment, its parent report as stored now, and
\* its attachments
GetParent ==
  /\ pc = "relrow"
  /\ rel_records # <<>>
  /\ oid' = Head(rel_records)
  /\ parentExt' = ParentExtId(Head(rel_records), srcExt)
  /\ atts' = AttsOf[Head(rel_records)]
  /\ pc' = "relattach"
  /\ UNCHANGED <<faults, run, logOpen, result, config, store, session, li, reltable, rows,
                 rel_records, requestid, updated_rows, cityworks, setup, history>>

\* main, lines 328-334: one attachment of the comment is copied to the
\* parent's request
CopyRelAttachment ==
  /\ pc = "relattach"
  /\ atts # <<>>
  /\ \E reply \in CopyReplies :
       /\ Reply(reply # "0")
       /\ attTried' = attTried \cup {oid}
       /\ attFail' = IF reply = "0" THEN attFail ELSE attFail \cup {oid}
       /\ uploads' = IF reply = "0" THEN [uploads EXCEPT ![Head(atts)] = @ + 1]
                     ELSE uploads
       /\ relCallExt' = [relCallExt EXCEPT ![oid] = parentExt]
       /\ atts' = Tail(atts)
       /\ pc' = IF reply = "raise" THEN "except" ELSE "relattach"
  /\ UNCHANGED <<run, logOpen, result, config, store, session, li, reltable, rows,
                 rel_records, oid, requestid, parentExt, updated_rows, cityworks,
                 setup, subRes, createCalls, createCount, editRes, cmtRes, queried>>

\* QueueComment without the test of the Status
QueueCommentAlways(batch, o, status) ==
  Append(batch, [oid |-> o, flag |-> flag_values[2]])

\* main, lines 338-349: updated_rows after a copy_comments response with the
\* given Status; only with Status 0 is the comment flagged and queued
QueueComment(batch, o, status) ==
  IF status # "0" THEN batch
  ELSE Append(batch, [oid |-> o, flag |-> flag_values[2]])

\* main, lines 336-349: the comment is appended to the parent's request; with
\* Status 0 the comment is flagged and queued for the write-back
CopyComments ==
  /\ pc = "relattach"
  /\ atts = <<>>
  /\ \E reply \in CopyReplies :
       /\ Reply(reply # "0")
       /\ cmtRes' = [cmtRes EXCEPT ![oid] = reply]
       /\ relCallExt' = [relCallExt EXCEPT ![oid] = parentExt]
       /\ IF reply = "raise"
          THEN /\ pc' = "except"
               /\ UNCHANGED <<updated_rows, rel_records>>
          ELSE /\ updated_rows' = QueueComment(updated_rows, oid, reply)
               /\ rel_records' = Tail(rel_records)
               /\ pc' = "relrow"
  /\ UNCHANGED <<run, logOpen, result, config, store, session, li, reltable, rows,
                 oid, requestid, atts, parentExt, cityworks, setup, subRes,
                 createCalls, createCount, attTried, attFail, uploads, editRes, queried>>

\* main, lines 351-359: the flagged comments are written back in one batch and
\* the loop moves to the next layer
ApplyRelEdits ==
  /\ pc = "relrow"
  /\ rel_records = <<>>
  /\ IF updated_rows = <<>>
     THEN /\ pc' = "layer"
          /\ li' = li + 1
          /\ UNCHANGED <<relFlag, editRes, faults>>
     ELSE \/ \E ok \in SUBSET Oids(updated_rows) :
               /\ Reply(ok # Oids(updated_rows))
               /\ relFlag' = Edited(relFlag, updated_rows, ok, "flag")
               /\ editRes' = [x \in DOMAIN editRes |->
                                IF x \in ok THEN "applied"
                                ELSE IF x \in Oids(updated_rows) THEN "rejected"
                                ELSE editRes[x]]
               /\ pc' = "layer"
               /\ li' = li + 1
          \/ /\ Reply(TRUE)
             /\ editRes' = [x \in DOMAIN editRes |->
                              IF x \in Oids(updated_rows) THEN "raise"
                              ELSE editRes[x]]
             /\ pc' = "except"
             /\ UNCHANGED <<relFlag, li>>
  /\ UNCHANGED <<run, logOpen, result, config, srcFlag, srcExt, session, reltable,
                 rows, rel_records, oid, requestid, atts, parentExt, updated_rows,
                 cityworks, setup, subRes, createCalls, createCount, attTried, attFail,
                 uploads, cmtRes, relCallExt, queried>>

\* ---------------------------------------------------------- end of the run
\* main, lines 361-362: the exception that left the try block is printed
HandleException ==
  /\ pc = "except"
  /\ pc' = "close"
  /\ result' = "Aborted"
  /\ UNCHANGED <<faults, run, logOpen, config, store, session, locals, cityworks, setup,
                 history>>

\* main, lines 364-365: the log is closed and main returns
CloseLog ==
  /\ pc = "close"
  /\ logOpen' = FALSE
  /\ pc' = "returned"
  /\ UNCHANGED <<faults, run, result, config, store, session, locals, cityworks, setup,
                 history>>

\* lines 368-377: the script is started again; the stored features and the
\* requests Cityworks holds are what the run before left
NextRun ==
  /\ pc \in {"returned", "crashed"}
  /\ run < MaxRuns
  /\ run' = run + 1
  /\ pc' = "config"
  /\ logOpen' = FALSE
  /\ result' = "running"
  /\ cw_token' = ""
  /\ sr' = NULL
  /\ prob_types' = NoDict
  /\ li' = 1
  /\ reltable' = ""
  /\ rows' = <<>>
  /\ rel_records' = <<>>
  /\ oid' = 0
  /\ requestid' = NULL
  /\ atts' = <<>>
  /\ parentExt' = NULL
  /\ updated_rows' = <<>>
  /\ subRes' = [r \in SourceRecs |-> "none"]
  /\ attTried' = {}
  /\ attFail' = {}
  /\ editRes' = [x \in SourceRecs \cup RelRecs |-> "none"]
  /\ cmtRes' = [c \in RelRecs |-> "none"]
  /\ relCallExt' = [c \in RelRecs |-> "none"]
  /\ queried' = {}
  /\ setup' = NoSetup
  /\ UNCHANGED <<config, store, cityworks, faults, createCalls, createCount, uploads>>

Next ==
  \/ ReadConfig
  \/ OpenLog
  \/ ConnectGIS
  \/ GetCwToken
  \/ GetWkid
  \/ GetProblemTypes
  \/ BeginLayer
  \/ EndLayers
  \/ SubmitRow
  \/ CopyAttachment
  \/ QueueRow
  \/ ApplyEdits
  \/ BeginRelated
  \/ GetParent
  \/ CopyRelAttachment
  \/ CopyComments
  \/ ApplyRelEdits
  \/ HandleException
  \/ CloseLog
  \/ NextRun

Spec == Init /\ [][Next]_vars

\* ================================================================= claims
Warnings == {WarnNoType, WarnNotFound, WarnMissing}
\* a value submit_to_cw returned that is a request identifier
IsRequestId(v) == v \notin Warnings \cup {"none", "raise", "error", NULL}
\* the reports queued for the write-back of the layer being processed
Queued == Oids(updated_rows) \cap SourceRecs
\* the problem types that are blank, not in the vocabulary, or absent
Unresolvable == {"  ", "sinkhole", NULL, MISSING}
RunOver == pc = "returned"

\* C1: a report is queued for the write-back only if its Create call returned
\* a request identifier; when the call gives the error outcome the report has
\* no attachment copied, is not queued, and keeps its flag 'on' and its
\* external id.
C1_QueuedOnlyIfCreated ==
  \A r \in SourceRecs :
    /\ r \in Queued => IsRequestId(subRes[r])
    /\ subRes[r] = "error" =>
         /\ r \notin attTried
         /\ r \notin Queued
         /\ editRes[r] = "none"
         /\ srcFlag[r] = FlagOn
         /\ srcExt[r] = NULL

\* C2: once the write-back of a report whose submission succeeded has been
\* applied, the stored report has the 'off' flag and, as external id, the
\* identifier its own Create call returned, which is no other report's.
C2_WriteBackOfSubmitted ==
  \A r \in SourceRecs :
    (IsRequestId(subRes[r]) /\ editRes[r] = "applied") =>
      /\ srcFlag[r] = FlagOff
      /\ srcExt[r] = subRes[r]
      /\ \A q \in SourceRecs \ {r} : subRes[q] # srcExt[r]

\* C2 witness: the second report of L1 was submitted and written back while
\* the first one was skipped with a warning
C2_Witness ==
  /\ IsRequestId(subRes[2])
  /\ editRes[2] = "applied"
  /\ subRes[1] \in Warnings

\* C3: a report whose problem type is blank, unknown, null or missing never
\* causes a Create call, and its flag is still 'on' once it has been handled.
C3_UnresolvableNotSubmitted ==
  \A r \in SourceRecs :
    ptype[r] \in Unresolvable =>
      /\ createCalls[r] = 0
      /\ subRes[r] # "none" => srcFlag[r] = FlagOn /\ editRes[r] = "none"

\* C3 witness: a run is over in which a report with a blank problem type was
\* handled while the vocabulary was loaded and another report was written back
C3_Witness ==
  /\ RunOver
  /\ ptype[1] = "  "
  /\ subRes[1] = WarnNoType
  /\ editRes[2] = "applied"

\* C4: failed attachment copies of a report whose submission succeeded never
\* keep the report from being written back in the same pass.
C4_AttachmentFailureNoBlock ==
  \A r \in SourceRecs :
    (RunOver /\ IsRequestId(subRes[r]) /\ r \in attFail) => editRes[r] # "none"

\* C5: when the vocabulary fetch fails, the run is aborted during setup: no
\* layer is queried, no report submitted, no write-back made.
C5_AbortOnVocabularyFailure ==
  setup.problems \in {"malformed", "request error"} =>
    /\ queried = {}
    /\ \A r \in SourceRecs : subRes[r] = "none"
    /\ \A x \in SourceRecs \cup RelRecs : editRes[x] = "none"

\* C6: when authentication returns a non-zero status or the preferences carry
\* no spatial reference, the run is aborted before any layer is queried; no
\* Create, upload, comment or write-back happens and the later setup steps
\* are not attempted.
C6_AbortOnAuthOrWkid ==
  (setup.auth = "1" \/ setup.wkid = "absent") =>
    /\ pc \in {"except", "close", "returned"}
    /\ pc # "except" => result = "Aborted"
    /\ queried = {}
    /\ \A r \in SourceRecs : subRes[r] = "none"
    /\ attTried = {}
    /\ \A c \in RelRecs : cmtRes[c] = "none" /\ relCallExt[c] = "none"
    /\ \A x \in SourceRecs \cup RelRecs : editRes[x] = "none"
    /\ setup.problems = "none"
    /\ setup.auth = "1" => setup.wkid = "none" /\ cw_token = ""

\* C6 witness: a run that ended because the spatial reference was missing
C6_Witness == RunOver /\ setup.wkid = "absent"

\* C7: Cityworks calls are made for a comment only if the external id of its
\* parent report is populated at that time.
C7_ParentSubmittedFirst ==
  \A c \in RelRecs : relCallExt[c] # "none" => IsRequestId(relCallExt[c])

\* C8: a comment is flagged and queued for the write-back only if its
\* comment call returned status 0; after a non-zero status its flag stays
\* null, it is in no batch, and the query of the next run selects it again.
C8_FlaggedOnlyOnStatus0 ==
  \A c \in RelRecs :
    /\ (c \in Oids(updated_rows) \/ editRes[c] # "none") => cmtRes[c] = "0"
    /\ cmtRes[c] = "1" =>
         /\ relFlag[c] = NULL
         /\ c \notin Oids(updated_rows)
         /\ \E l \in 1..Len(layers) :
              \E i \in 1..Len(QueryComments(l, relFlag)) :
                QueryComments(l, relFlag)[i] = c

\* C8 witness: a run is over in which the comment call returned a non-zero
\* status after the comment's attachment had been uploaded
C8_Witness == RunOver /\ cmtRes[11] = "1" /\ uploads["c1"] > 0

\* C9: a warning or a submission error on one report leaves its flag and
\* external id unchanged.
C9_FailedRecordUntouched ==
  \A r \in SourceRecs :
    subRes[r] \in Warnings \cup {"error"} =>
      srcFlag[r] = FlagOn /\ srcExt[r] = NULL

\* C10: a report whose flag is not 'on' is left untouched: no step submits
\* it, copies its attachments or changes its flag or external id.
C10_UnflaggedUntouched ==
  [][\A r \in SourceRecs :
       srcFlag[r] # FlagOn =>
         /\ srcFlag'[r] = srcFlag[r]
         /\ srcExt'[r] = srcExt[r]
         /\ createCalls'[r] = createCalls[r]
         /\ subRes'[r] \in {subRes[r], "none"}
         /\ r \in attTried' => r \in attTried]_vars

\* C10 witness: L1 was queried while its first report was already processed,
\* and its second report went through submission and write-back
C10_Witness ==
  /\ srcFlag[1] = FlagOff
  /\ srcExt[1] = "900"
  /\ subRes[1] = "none"
  /\ <<"layer", 1>> \in queried
  /\ editRes[2] = "applied"

\* C11: the data of the Create call made for a report whose upper-cased
\* problem type is in the vocabulary holds, for each pair of the field map,
\* the string form of the source attribute under the external name, X and Y
\* of the geometry, and under the type field the vocabulary id of the
\* upper-cased problem type (42 for POTHOLE in either case), and nothing else.
C11_PayloadOfCreate ==
  \A r \in SourceRecs :
    (oid = r /\ subRes[r] # "none" /\ prob_types.isDict
       /\ ptype[r] \in {"POTHOLE", "pothole"}) =>
      /\ \A i \in 1..Len(layerfields) :
           <<layerfields[i][1],
             IF DescOf[r] = NULL THEN "None" ELSE DescOf[r]>> \in payload
      /\ <<"X", GeomOf[r].x>> \in payload
      /\ <<"Y", GeomOf[r].y>> \in payload
      /\ <<probtypes[1], 42>> \in payload
      /\ Cardinality(payload) = Len(layerfields) + 3

\* C11 witness: the Create call for the second report of L1, whose free-text
\* attribute is null, after the first one, with a lower-case problem type,
\* had been submitted
C11_Witness ==
  /\ oid = 2
  /\ pc = "attach"
  /\ ptype[1] = "pothole"
  /\ IsRequestId(subRes[1])
  /\ IsRequestId(subRes[2])
  /\ <<"Comments", "None">> \in payload

\* C12: whichever step fails, the failure is caught, the run ends in Done or
\* Aborted, and the log is closed.
C12_EveryFailureCaught ==
  /\ pc # "crashed"
  /\ RunOver => result \in {"Done", "Aborted"} /\ ~logOpen

\* C13: the write-back of the reports of a layer is made before the related
\* records of that layer are queried, so the parent fetched for a comment
\* carries the external id it was given earlier in the same run.
C13_WriteBackBeforeRelated ==
  \A c \in RelRecs :
    LET r == ParentOf[c]
    IN /\ (pc \in {"relrow", "relattach"} /\ r \in LayerRecs[li]) =>
            /\ rows = <<>>
            /\ subRes[r] \notin Warnings \cup {"none", "raise"} =>
                 editRes[r] # "none"
       /\ (relCallExt[c] # "none" /\ IsRequestId(subRes[r])
             /\ editRes[r] = "applied") =>
            relCallExt[c] = subRes[r]

\* C13 witness: the comment call was made with the request id its parent was
\* given and written back with in the same run
C13_Witness ==
  /\ IsRequestId(subRes[1])
  /\ editRes[1] = "applied"
  /\ cmtRes[11] = "0"
  /\ relCallExt[11] = subRes[1]

\* C14: in a run whose setup succeeded and in which no call fails, every
\* configured layer is processed, also the layers after one that has no
\* matching related table.
C14_EveryLayerProcessed ==
  (RunOver /\ run = 1 /\ faults = 0 /\ setup.problems = "good"
     /\ \A r \in SourceRecs : subRes[r] # "raise") =>
    \A l \in 1..Len(layers) : <<"layer", l>> \in queried

\* C15: the token and the spatial reference are each written once, during
\* setup, and do not change afterwards within the run; every Cityworks call
\* but authenticate is made with the token of a successful authentication.
C15_CallsMadeWithToken ==
  (\/ pc \in {"wkid", "probs", "layer", "row", "attach", "rel", "relrow",
              "relattach"}
   \/ setup.wkid # "none"
   \/ setup.problems # "none"
   \/ \E r \in SourceRecs : subRes[r] # "none"
   \/ attTried # {}
   \/ \E c \in RelRecs : cmtRes[c] # "none") => cw_token = "token"

C15_WrittenOnce ==
  [][run' = run =>
       /\ cw_token' # cw_token => pc = "auth" /\ cw_token = ""
       /\ sr' # sr => pc = "wkid" /\ sr = NULL]_vars

C15_TokenAndWkid == []C15_CallsMadeWithToken /\ C15_WrittenOnce

\* C15 witness: a comment call made in a second run, with the token and the
\* spatial reference that run obtained
C15_Witness ==
  /\ run = 2
  /\ cmtRes[11] = "0"
  /\ cw_token = "token"
  /\ sr = "2263"

\* C16: over all runs, no report has more than one Create call that returned
\* a request id.
C16_CreatedAtMostOnce == \A r \in SourceRecs : createCount[r] <= 1

\* C17: over all runs, no attachment of a related record is uploaded more
\* than once.
C17_RelAttachmentUploadedOnce ==
  \A c \in RelRecs : \A i \in 1..Len(AttsOf[c]) : uploads[AttsOf[c][i]] <= 1

====
